---- MODULE Spec2Model ----
(***************************************************************************)
(* talkus-backend: PostController.Create / PostController.GetAll           *)
(* (internal/controllers/post_controller.go), PostUsecase                  *)
(* (internal/usecases/post_usecase.go) and UserUsecase.GetUser             *)
(* (internal/usecases/user_usecase.go).                                    *)
(*                                                                         *)
(* Every HTTP request is one goroutine; the goroutines share the image     *)
(* host, the post repository and the wall clock.  A handler is cut into    *)
(* steps at its returns and at its calls to shared collaborators.          *)
(***************************************************************************)
EXTENDS Integers, Sequences, FiniteSets, TLC

\* ------------------------------------------------------------- bounds
NumReq == 2        \* HTTP requests in flight
MaxClock == 1      \* time.Now().Unix() ranges over 0..MaxClock
MaxCalls == 2      \* GetUser calls recorded

Requests == 1..NumReq
Seconds == 0..MaxClock

\* ------------------------------------------------------------- input domains
ContentTypes == {"multipart/form-data", "application/json"}
Titles == {"", "Hello"}
Contents == {"", "World"}
NoFile == "none"
\* the bytes of the image part of request r; no two requests carry the same image
Image(r) == "img" \o ToString(r)
Images == {Image(r) : r \in Requests}
ParseErrs == {"unexpected EOF"}
UploadErrs == {"timeout", "unauthorized"}
RepoErrs == {"connection refused", "write conflict"}
UserIDs == {"", "u1", "u2"}
NoUser == "nil"
UserDocs == {"docA", "docB"}

\* ------------------------------------------------------------- HTTP statuses
StatusOK == 200
StatusCreated == 201
StatusBadRequest == 400
StatusInternalServerError == 500

VARIABLES
    clock,      \* the wall clock, in Unix seconds
    pc,         \* pc[r]: where request r's handler stands
    req,        \* req[r]: the request's Content-Type and form values
    loc,        \* loc[r]: the handler's locals (file, imageURL, post, err)
    resp,       \* resp[r]: the responses written to w, in order
    trace,      \* trace[r]: the steps the handler has taken, in order
    cloud,      \* image host: public ID -> stored image
    db,         \* post repository: the persisted posts, in insertion order
    users,      \* user repository: id -> document
    calls       \* the GetUser calls made so far, with what each returned

vars == <<clock, pc, req, loc, resp, trace, cloud, db, users, calls>>
postVars == <<clock, pc, req, loc, resp, trace, cloud, db>>
userVars == <<users, calls>>

\* ------------------------------------------------------------- models.Post
NoPost ==
    [ID |-> 0, Title |-> "", Content |-> "", ImageURL |-> "", Likes |-> 0,
     Dislikes |-> 0, IsFlagged |-> FALSE, CreatedAt |-> 0, UpdatedAt |-> 0]

\* NewPost with the uploaded image's URL left out of the entity
NewPostDropsImage(title, content, imageURL, now) ==
    [ID |-> 0, Title |-> title, Content |-> content, ImageURL |-> "",
     Likes |-> 0, Dislikes |-> 0, IsFlagged |-> FALSE,
     CreatedAt |-> now, UpdatedAt |-> now]

\* NewPost with the two form values assigned to each other's field
NewPostSwapsFields(title, content, imageURL, now) ==
    [ID |-> 0, Title |-> content, Content |-> title, ImageURL |-> imageURL,
     Likes |-> 0, Dislikes |-> 0, IsFlagged |-> FALSE,
     CreatedAt |-> now, UpdatedAt |-> now]

\* post := &models.Post{...}
NewPost(title, content, imageURL, now) ==
    [ID |-> 0, Title |-> title, Content |-> content, ImageURL |-> imageURL,
     Likes |-> 0, Dislikes |-> 0, IsFlagged |-> FALSE,
     CreatedAt |-> now, UpdatedAt |-> now]

\* ------------------------------------------------------------- responses
\* http.Error(w, msg, code): a text body
TextResp(code, msg) ==
    [status |-> code, kind |-> "text", text |-> msg, post |-> NoPost, posts |-> <<>>]

\* json.NewEncoder(w).Encode(map[string]string{"error": msg})
JSONErrorResp(code, msg) ==
    [status |-> code, kind |-> "jsonError", text |-> msg, post |-> NoPost, posts |-> <<>>]

\* json.NewEncoder(w).Encode(created)
JSONPostResp(code, p) ==
    [status |-> code, kind |-> "jsonPost", text |-> "", post |-> p, posts |-> <<>>]

\* json.NewEncoder(w).Encode(posts)
JSONPostsResp(code, ps) ==
    [status |-> code, kind |-> "jsonPosts", text |-> "", post |-> NoPost, posts |-> ps]

\* ------------------------------------------------------------- image host
\* PublicID: fmt.Sprintf("post_%d", time.Now().Unix())
PublicID(now) == "post_" \o ToString(now)

PublicIDs == {PublicID(t) : t \in Seconds}

\* res.SecureURL of an upload into Folder "posts_images" under publicID
SecureURL(publicID) == "https://res.cloudinary.com/posts_images/" \o publicID

\* the image the host serves at url
StoredAt(url) ==
    IF \E p \in PublicIDs : SecureURL(p) = url
    THEN cloud[CHOOSE p \in PublicIDs : SecureURL(p) = url]
    ELSE NoFile

\* Upload with Overwrite = true: whatever was stored under publicID is replaced
CloudUpload(store, publicID, image) == [store EXCEPT ![publicID] = image]

\* ------------------------------------------------------------- repositories
\* PostRepository.Create: assigns the identifier in place and stores the post
RepoCreate(posts, p) == Append(posts, [p EXCEPT !.ID = Len(posts) + 1])

\* PostRepository.GetAll
RepoGetAll(posts) == posts

\* ------------------------------------------------------------- Create: helpers
NoReq == [ct |-> "", title |-> "", content |-> ""]
NoLoc == [file |-> NoFile, res |-> "", imageURL |-> "", post |-> NoPost,
          created |-> NoPost, err |-> ""]

\* strings.HasPrefix(ct, "multipart/form-data")
IsMultipart(ct) == ct = "multipart/form-data"

\* the validation written with && in place of ||
FieldsMissingBothEmpty(title, content) == title = "" /\ content = ""

\* title == "" || content == ""
FieldsMissing(title, content) == title = "" \/ content = ""

Finish(r, response, step) ==
    /\ resp' = [resp EXCEPT ![r] = Append(@, response)]
    /\ trace' = [trace EXCEPT ![r] = Append(@, step)]
    /\ pc' = [pc EXCEPT ![r] = "done"]

Advance(r, step, next) ==
    /\ trace' = [trace EXCEPT ![r] = Append(@, step)]
    /\ pc' = [pc EXCEPT ![r] = next]
    /\ UNCHANGED resp

\* ------------------------------------------------------------- Create: steps
\* A POST /public/posts arrives; the handler checks its Content-Type.
CheckContentType(r) ==
    /\ pc[r] = "idle"
    /\ \E ct \in ContentTypes, title \in Titles, content \in Contents :
         /\ req' = [req EXCEPT ![r] = [ct |-> ct, title |-> title, content |-> content]]
         /\ IF ~IsMultipart(ct)
            THEN Finish(r, TextResp(StatusBadRequest,
                                    "Content-Type debe ser multipart/form-data"),
                        "contentType")
            ELSE Advance(r, "contentType", "parse")
    /\ UNCHANGED <<clock, loc, cloud, db, userVars>>

\* r.ParseMultipartForm(10 << 20)
ParseForm(r) ==
    /\ pc[r] = "parse"
    /\ \/ \E e \in ParseErrs :
            /\ loc' = [loc EXCEPT ![r].err = e]
            /\ Finish(r, TextResp(StatusBadRequest, "Error parsing form: " \o e), "parse")
       \/ /\ Advance(r, "parse", "validate")
          /\ UNCHANGED loc
    /\ UNCHANGED <<clock, req, cloud, db, userVars>>

\* title, content := r.FormValue(...); reject when either is empty
ValidateFields(r) ==
    /\ pc[r] = "validate"
    /\ IF FieldsMissing(req[r].title, req[r].content)
       THEN Finish(r, TextResp(StatusBadRequest, "title y content son obligatorios"),
                   "validate")
       ELSE Advance(r, "validate", "formFile")
    /\ UNCHANGED <<clock, req, loc, cloud, db, userVars>>

\* file, _, err := r.FormFile("image")
FormFile(r) ==
    /\ pc[r] = "formFile"
    /\ \/ /\ loc' = [loc EXCEPT ![r].file = Image(r)]
          /\ Advance(r, "formFile", "upload")
       \/ /\ loc' = [loc EXCEPT ![r].file = NoFile]
          /\ Advance(r, "formFile", "build")
    /\ UNCHANGED <<clock, req, cloud, db, userVars>>

\* the 500 written when c.cld.Upload.Upload fails
UploadFailResp(e) ==
    TextResp(StatusInternalServerError, "Error subiendo imagen: " \o e)

\* Create without the return after a failed upload
AfterUploadFallsThrough(ok) == "build"

\* where Create goes after c.cld.Upload.Upload returns
AfterUpload(ok) == IF ok THEN "build" ELSE "done"

\* res, err := c.cld.Upload.Upload(r.Context(), file, uploadParams)
UploadImage(r) ==
    /\ pc[r] = "upload"
    /\ \/ \E e \in UploadErrs :
            /\ loc' = [loc EXCEPT ![r].err = e]
            /\ trace' = [trace EXCEPT ![r] = Append(@, "upload")]
            /\ pc' = [pc EXCEPT ![r] = AfterUpload(FALSE)]
            /\ resp' = [resp EXCEPT ![r] = Append(@, UploadFailResp(e))]
            /\ UNCHANGED cloud
       \/ /\ cloud' = CloudUpload(cloud, PublicID(clock), loc[r].file)
          /\ loc' = [loc EXCEPT ![r].res = SecureURL(PublicID(clock)),
                                 ![r].imageURL = SecureURL(PublicID(clock))]
          /\ trace' = [trace EXCEPT ![r] = Append(@, "upload")]
          /\ pc' = [pc EXCEPT ![r] = AfterUpload(TRUE)]
          /\ UNCHANGED resp
    /\ UNCHANGED <<clock, req, db, userVars>>

\* now := time.Now(); post := &models.Post{...}
BuildEntity(r) ==
    /\ pc[r] = "build"
    /\ loc' = [loc EXCEPT ![r].post =
                 NewPost(req[r].title, req[r].content, loc[r].imageURL, clock)]
    /\ Advance(r, "build", "persist")
    /\ UNCHANGED <<clock, req, cloud, db, userVars>>

\* Create answering 201 without looking at CreatePost's error
PersistRespAlwaysCreated(ok, created) == JSONPostResp(StatusCreated, created)

\* the response written after c.postUsecase.CreatePost returns
PersistResp(ok, created) ==
    IF ok THEN JSONPostResp(StatusCreated, created)
    ELSE TextResp(StatusInternalServerError, "No se pudo crear el post")

\* PostUsecase.CreatePost: u.repo.Create(ctx, p); return p
CreatePost(r) ==
    \/ \E e \in RepoErrs :
         /\ loc' = [loc EXCEPT ![r].err = e]
         /\ UNCHANGED db
    \/ /\ db' = RepoCreate(db, loc[r].post)
       /\ loc' = [loc EXCEPT ![r].post = db'[Len(db')], ![r].created = db'[Len(db')],
                              ![r].err = ""]

\* created, err := c.postUsecase.CreatePost(r.Context(), post); respond
Persist(r) ==
    /\ pc[r] = "persist"
    /\ CreatePost(r)
    /\ Finish(r, PersistResp(loc'[r].err = "", loc'[r].created), "persist")
    /\ UNCHANGED <<clock, req, cloud, userVars>>

\* ------------------------------------------------------------- GetAll
\* PostController.GetAll -> PostUsecase.GetAllPosts -> repo.GetAll
GetAll(r) ==
    /\ pc[r] = "idle"
    /\ \/ \E e \in RepoErrs :
            /\ loc' = [loc EXCEPT ![r].err = e]
            /\ Finish(r, JSONErrorResp(StatusInternalServerError,
                                       "Error interno del servidor"), "getAll")
       \/ /\ UNCHANGED loc
          /\ Finish(r, JSONPostsResp(StatusOK, RepoGetAll(db)), "getAll")
    /\ UNCHANGED <<clock, req, cloud, db, userVars>>

\* ------------------------------------------------------------- UserUsecase
ErrMissingID == "falta el parametro 'id'"      \* the source spells it with an accent
ErrUserNotFound == "usuario no encontrado"
ErrNoDocument == "no document"

\* UserRepository.GetUserByID: the stored document, or a failure
RepoGetUserByID(store, id) ==
    {[user |-> NoUser, err |-> e] : e \in RepoErrs}
    \cup (IF id \in DOMAIN store /\ store[id] # NoUser
          THEN {[user |-> store[id], err |-> ""]}
          ELSE {[user |-> NoUser, err |-> ErrNoDocument]})

\* GetUser without the check of its parameter
MissingIDUnchecked(userID) == FALSE

\* if userID == ""
MissingID(userID) == userID = ""

\* GetUser handing the repository's own error to its caller
LookupResultPropagates(res) == [user |-> res.user, err |-> res.err]

\* what GetUser returns after u.repo.GetUserByID returned res
LookupResult(res) ==
    IF res.err # ""
    THEN [user |-> NoUser, err |-> ErrUserNotFound]
    ELSE [user |-> res.user, err |-> ""]

LastCall == calls[Len(calls)]
CallPending == calls # <<>> /\ ~LastCall.done

\* GetUser(ctx, userID): the parameter check
GetUserBegin ==
    /\ ~CallPending
    /\ Len(calls) < MaxCalls
    /\ \E userID \in UserIDs :
         calls' = Append(calls,
             IF MissingID(userID)
             THEN [userID |-> userID, repoCalls |-> 0, repo |-> [user |-> NoUser, err |-> ""],
                   user |-> NoUser, err |-> ErrMissingID, done |-> TRUE]
             ELSE [userID |-> userID, repoCalls |-> 0, repo |-> [user |-> NoUser, err |-> ""],
                   user |-> NoUser, err |-> "", done |-> FALSE])
    /\ UNCHANGED <<users, postVars>>

\* GetUser(ctx, userID): user, err := u.repo.GetUserByID(ctx, userID); return
GetUserLookup ==
    /\ CallPending
    /\ \E res \in RepoGetUserByID(users, LastCall.userID) :
         calls' = [calls EXCEPT ![Len(calls)] =
                     [@ EXCEPT !.repoCalls = @ + 1, !.repo = res,
                               !.user = LookupResult(res).user,
                               !.err = LookupResult(res).err, !.done = TRUE]]
    /\ UNCHANGED <<users, postVars>>

\* the wall clock moves on
Tick ==
    /\ clock < MaxClock
    /\ clock' = clock + 1
    /\ UNCHANGED <<pc, req, loc, resp, trace, cloud, db, userVars>>

\* ------------------------------------------------------------- specification
Init ==
    /\ clock = 0
    /\ pc = [r \in Requests |-> "idle"]
    /\ req = [r \in Requests |-> NoReq]
    /\ loc = [r \in Requests |-> NoLoc]
    /\ resp = [r \in Requests |-> <<>>]
    /\ trace = [r \in Requests |-> <<>>]
    /\ cloud = [p \in PublicIDs |-> NoFile]
    /\ db = <<>>
    /\ users = [u \in UserIDs \ {""} |-> NoUser]
    /\ calls = <<>>

Next ==
    \/ \E r \in Requests : CheckContentType(r)
    \/ \E r \in Requests : ParseForm(r)
    \/ \E r \in Requests : ValidateFields(r)
    \/ \E r \in Requests : FormFile(r)
    \/ \E r \in Requests : UploadImage(r)
    \/ \E r \in Requests : BuildEntity(r)
    \/ \E r \in Requests : Persist(r)
    \/ \E r \in Requests : GetAll(r)
    \/ Tick

Spec == Init /\ [][Next]_vars

\* the user use case alone, over every content of the user repository
InitUser ==
    /\ clock = 0
    /\ pc = [r \in Requests |-> "idle"]
    /\ req = [r \in Requests |-> NoReq]
    /\ loc = [r \in Requests |-> NoLoc]
    /\ resp = [r \in Requests |-> <<>>]
    /\ trace = [r \in Requests |-> <<>>]
    /\ cloud = [p \in PublicIDs |-> NoFile]
    /\ db = <<>>
    /\ users \in [UserIDs \ {""} -> UserDocs \cup {NoUser}]
    /\ calls = <<>>

NextUser ==
    \/ GetUserBegin
    \/ GetUserLookup

SpecUser == InitUser /\ [][NextUser]_vars

\* ------------------------------------------------------------- vocabulary of the claims
Done(r) == pc[r] = "done"
Did(r, step) == \E i \in DOMAIN trace[r] : trace[r][i] = step
Times(r, step) == Cardinality({i \in DOMAIN trace[r] : trace[r][i] = step})
IsCreate(r) == Did(r, "contentType")
IsGetAll(r) == Did(r, "getAll")
LastStep(r) == trace[r][Len(trace[r])]
Status(r) == resp[r][1].status
HadImage(r) == loc[r].file # NoFile
UploadOK(r) == Did(r, "upload") /\ loc[r].res # ""
UploadFailed(r) == Did(r, "upload") /\ loc[r].res = ""
PersistOK(r) == Did(r, "persist") /\ loc[r].created # NoPost
PersistFailed(r) == Did(r, "persist") /\ loc[r].created = NoPost
EmptyField(r) == req[r].title = "" \/ req[r].content = ""

\* the order of the steps of Create
CreateOrder ==
    <<"contentType", "parse", "validate", "formFile", "upload", "build", "persist">>

Position(step) == CHOOSE i \in DOMAIN CreateOrder : CreateOrder[i] = step

InOrder(t) ==
    /\ \A i \in DOMAIN t : \E j \in DOMAIN CreateOrder : CreateOrder[j] = t[i]
    /\ \A i, j \in DOMAIN t : i < j => Position(t[i]) < Position(t[j])

\* ------------------------------------------------------------- claims

\* C1: a Create request with an empty title or an empty content is answered 400
\* and never reaches the repository's Create; every persisted Post has a
\* non-empty Title and a non-empty Content.
C1_EmptyFieldRejected ==
    /\ \A r \in Requests :
         (IsCreate(r) /\ EmptyField(r)) =>
            /\ ~Did(r, "persist")
            /\ Done(r) => (Len(resp[r]) = 1 /\ Status(r) = StatusBadRequest)
    /\ \A i \in DOMAIN db : db[i].Title # "" /\ db[i].Content # ""

\* C1 witness: a request with a title and an empty content was rejected by the
\* field validation, while another request's post was persisted.
C1_Witness ==
    \E r \in Requests :
        /\ Done(r) /\ LastStep(r) = "validate"
        /\ req[r].title # "" /\ req[r].content = ""
        /\ Status(r) = StatusBadRequest
        /\ db # <<>>

\* C2: a Create request whose image upload fails is answered 500 and the
\* persistence operation is never invoked for it.
C2_UploadFailureTerminal ==
    \A r \in Requests :
        UploadFailed(r) =>
            /\ HadImage(r)
            /\ Done(r)
            /\ Len(resp[r]) = 1 /\ Status(r) = StatusInternalServerError
            /\ ~Did(r, "build") /\ ~Did(r, "persist")
            /\ loc[r].post = NoPost

\* C2 witness: a request with an image part whose upload failed has ended.
C2_Witness ==
    \E r \in Requests :
        HadImage(r) /\ UploadFailed(r) /\ Done(r) /\ loc[r].err \in UploadErrs

\* C3: a 500 caused by a failing collaborator carries a fixed message: two
\* requests that failed at the same step with a 500 carry the same body,
\* whatever the collaborator's error was.
C3_GenericServerError ==
    \A a, b \in Requests :
        (/\ Done(a) /\ Done(b)
         /\ Status(a) = StatusInternalServerError
         /\ Status(b) = StatusInternalServerError
         /\ LastStep(a) = LastStep(b)) => resp[a] = resp[b]

\* C4: the Post handed to CreatePost has ImageURL equal to the secure URL the
\* upload returned when the request had an image part, and the empty string
\* when it had none; ImageURL is never non-empty without a successful upload
\* in the same request.
C4_ImageURLFromUpload ==
    \A r \in Requests :
        (pc[r] = "persist" \/ Did(r, "persist")) =>
            /\ (HadImage(r) /\ UploadOK(r)) => loc[r].post.ImageURL = loc[r].res
            /\ ~HadImage(r) => loc[r].post.ImageURL = ""
            /\ loc[r].post.ImageURL # "" => UploadOK(r)

\* C4 witness: a request with an image part reached persistence with the
\* uploaded image's URL, after another request without an image part did.
C4_Witness ==
    \E a, b \in Requests :
        /\ PersistOK(a) /\ HadImage(a) /\ loc[a].post.ImageURL = loc[a].res
        /\ loc[a].res # ""
        /\ PersistOK(b) /\ ~HadImage(b)

\* C5: a Create request with a title, a content and no image part builds a Post
\* with the submitted Title and Content, ImageURL "", Likes 0, Dislikes 0,
\* IsFlagged false and CreatedAt = UpdatedAt; when persistence succeeds the
\* response is 201 carrying that entity.
C5_PostWithoutImage ==
    \A r \in Requests :
        (Did(r, "build") /\ ~HadImage(r)) =>
            /\ req[r].title # "" /\ req[r].content # ""
            /\ loc[r].post.Title = req[r].title
            /\ loc[r].post.Content = req[r].content
            /\ loc[r].post.ImageURL = ""
            /\ loc[r].post.Likes = 0
            /\ loc[r].post.Dislikes = 0
            /\ loc[r].post.IsFlagged = FALSE
            /\ loc[r].post.CreatedAt = loc[r].post.UpdatedAt
            /\ PersistOK(r) =>
                 /\ resp[r] = <<JSONPostResp(StatusCreated, loc[r].post)>>
                 /\ \E i \in DOMAIN db : db[i] = loc[r].post

\* C5 witness: title "Hello", content "World", no image part, created after the
\* clock has moved, answered 201.
C5_Witness ==
    \E r \in Requests :
        /\ Done(r) /\ PersistOK(r) /\ ~HadImage(r)
        /\ req[r].title = "Hello" /\ req[r].content = "World"
        /\ loc[r].post.CreatedAt > 0
        /\ Status(r) = StatusCreated

\* C6: GetUser with an empty userID returns a nil user and the "missing
\* parameter" error without invoking the repository's GetUserByID.
C6_EmptyUserID ==
    \A i \in DOMAIN calls :
        calls[i].userID = "" =>
            /\ calls[i].done
            /\ calls[i].user = NoUser
            /\ calls[i].err = ErrMissingID
            /\ calls[i].repoCalls = 0

\* C6 witness: a call with the empty userID has returned, after a call that
\* did consult the repository.
C6_Witness ==
    \E i, j \in DOMAIN calls :
        /\ j < i
        /\ calls[i].userID = "" /\ calls[i].done
        /\ calls[j].repoCalls = 1

\* C7: GetUser with a non-empty userID returns a nil user and the fixed "user
\* not found" error whenever the repository fails, whatever the repository's
\* error, and exactly the repository's user with no error when it succeeds.
C7_RepositoryFailureCollapsed ==
    \A i \in DOMAIN calls :
        (calls[i].userID # "" /\ calls[i].done) =>
            /\ calls[i].repoCalls = 1
            /\ calls[i].repo.err # "" =>
                 (calls[i].user = NoUser /\ calls[i].err = ErrUserNotFound)
            /\ calls[i].repo.err = "" =>
                 (calls[i].user = calls[i].repo.user /\ calls[i].err = ""
                  /\ calls[i].user = users[calls[i].userID])

\* C7 witness: one call failed because the repository was unreachable, another
\* because the document is missing, and a third kind returned a document.
C7_Witness ==
    \E i, j \in DOMAIN calls :
        /\ calls[i].done /\ calls[i].repo.err \in RepoErrs
        /\ calls[i].err = ErrUserNotFound
        /\ calls[j].done /\ calls[j].userID # "" /\ calls[j].repo.err = ""
        /\ calls[j].user \in UserDocs

\* the handler of request r can take a step
CanStep(r) ==
    \/ ENABLED ParseForm(r)
    \/ ENABLED ValidateFields(r)
    \/ ENABLED FormFile(r)
    \/ ENABLED UploadImage(r)
    \/ ENABLED BuildEntity(r)
    \/ ENABLED Persist(r)

\* C8: a Create request writes exactly one response, when it ends; it uploads
\* at most once and persists at most once; its steps follow the order
\* content-type check, form parse, field validation, upload, build, persist;
\* it answers 201 exactly when persistence was invoked and succeeded, and 500
\* whenever persistence was invoked and failed.
C8_OneResponseInOrder ==
    \A r \in Requests :
        IsCreate(r) =>
            /\ Len(resp[r]) = (IF Done(r) THEN 1 ELSE 0)
            /\ ~Done(r) => CanStep(r)
            /\ Times(r, "upload") <= 1
            /\ Times(r, "persist") <= 1
            /\ InOrder(trace[r])
            /\ Done(r) =>
                 /\ Status(r) = StatusCreated <=> PersistOK(r)
                 /\ PersistFailed(r) => Status(r) = StatusInternalServerError
                 /\ PersistOK(r) <=> \E i \in DOMAIN db : db[i] = loc[r].created

\* C8 witness: one request went through every step and was answered 201,
\* another went through every step and was answered 500.
C8_Witness ==
    \E a, b \in Requests :
        /\ Done(a) /\ trace[a] = CreateOrder /\ Status(a) = StatusCreated
        /\ Done(b) /\ trace[b] = CreateOrder /\ PersistFailed(b)
        /\ Status(b) = StatusInternalServerError

\* C9: when the upload succeeds and persistence then fails, the request ends
\* with 500, the image it uploaded is still stored on the image host, and no
\* persisted Post references it.
C9_OrphanedUpload ==
    \A r \in Requests :
        (Done(r) /\ UploadOK(r) /\ PersistFailed(r)) =>
            /\ Status(r) = StatusInternalServerError
            /\ StoredAt(loc[r].res) = loc[r].file
            /\ \A i \in DOMAIN db : db[i].ImageURL # loc[r].res

\* C10: two Create requests that both carry an image part and both succeed each
\* find, at their Post's ImageURL, the image their own request uploaded.
C10_UploadsIndependent ==
    \A a, b \in Requests :
        (/\ a # b
         /\ Done(a) /\ PersistOK(a) /\ HadImage(a)
         /\ Done(b) /\ PersistOK(b) /\ HadImage(b)) =>
            /\ StoredAt(loc[a].created.ImageURL) = loc[a].file
            /\ StoredAt(loc[b].created.ImageURL) = loc[b].file

====
